---- MODULE Spec2Model ----
(***************************************************************************)
(* State-machine model of the TMDB discovery add-on (src/index.js).  The   *)
(* source file holds five revisions of the add-on (manifest versions       *)
(* 1.1.0, 2.1.0, 1.9.0, 2.3.3 and 2.1.1); `rev` selects the revision that   *)
(* is deployed.  One action is one event-loop task of a handler: it starts  *)
(* when a request or an upstream response arrives and runs to the next      *)
(* await.                                                                   *)
(***************************************************************************)
EXTENDS Integers, Sequences, FiniteSets, TLC

VARIABLES
  rev,        \* deployed revision of index.js
  up,         \* the upstream: [N, pageLen, total, hits]
  pc,         \* position of the handler that serves the request
  req,        \* the request being served
  reads,      \* number of outbound reads issued
  failed,     \* the reads that failed (network error or non-2xx), by name
  resolved,   \* `resolved`: what the search query resolved to
  collected,  \* `collected`: the recommendations accumulated so far
  p,          \* loop variable of the page loop
  pages,      \* `pages`: the page objects pushed so far
  requested,  \* page numbers requested from the upstream, in request order
  window,     \* `window`: the sliced items
  imdbIds,    \* slots of Promise.all over the external-id lookups
  overtaken,  \* whether a lookup response arrived before that of an earlier item
  metas,      \* the metas list of the response
  locals,     \* meta and stream handlers: what the id matched, imdb, tmdbId
  found,      \* meta and stream handlers: result of the reverse lookup
  meta,       \* the meta object of the response
  streams,    \* the streams list of the response
  prior,      \* what the previous catalog request was and what it returned
  outcome     \* "none" while running, "ok" (resolved) or "error" (rejected)

vars == <<rev, up, pc, req, reads, failed, resolved, collected, p, pages, requested,
          window, imdbIds, overtaken, metas, locals, found, meta, streams,
          prior, outcome>>

\* What the catalog handler leaves alone
handlerVars == <<locals, found, meta, streams, prior>>
\* What the meta and stream handlers leave alone
catalogVars == <<resolved, collected, p, pages, requested, metas, prior>>

-----------------------------------------------------------------------------
(* Program constants *)

tmdbPerPage == 20
maxReturn == 100
PAGE_SIZE == 50
MaxRecsPage == 10

(* Bounds of the model *)

MaxSkip == 21
MaxN == 125
MaxOvertake == 1

-----------------------------------------------------------------------------
(* JavaScript values *)

Min(a, b) == IF a <= b THEN a ELSE b
Max(a, b) == IF a >= b THEN a ELSE b

\* A JS value that is a string, null, undefined (a field the object does not
\* have), or a thrown error / rejected promise.
Null == [k |-> "null", s |-> <<>>]
Undefined == [k |-> "undefined", s |-> <<>>]
Throw == [k |-> "throw", s |-> <<>>]
Pending == [k |-> "pending", s |-> <<>>]
StrV(s) == [k |-> "str", s |-> s]
Truthy(v) == v.k = "str" /\ v.s # <<>>
\* a || b
Or(a, b) == IF Truthy(a) THEN a ELSE b

\* Array.prototype.slice(a, b): a negative index counts from the end
Slice(s, a, b) ==
  LET from == IF a < 0 THEN Max(Len(s) + a, 0) ELSE Min(a, Len(s))
      to == IF b < 0 THEN Max(Len(s) + b, 0) ELSE Min(b, Len(s))
  IN SubSeq(s, from + 1, to)

\* a % b of JavaScript for b > 0: the sign of the result is the sign of a
JsRem(a, b) == IF a >= 0 THEN a % b ELSE 0 - ((0 - a) % b)

DigitChar(d) ==
  CASE d = 0 -> "0" [] d = 1 -> "1" [] d = 2 -> "2" [] d = 3 -> "3"
    [] d = 4 -> "4" [] d = 5 -> "5" [] d = 6 -> "6" [] d = 7 -> "7"
    [] d = 8 -> "8" [] d = 9 -> "9"

\* String(n) / `${n}` for a non-negative integer n
RECURSIVE NumToStr(_)
NumToStr(n) ==
  IF n < 10 THEN <<DigitChar(n)>>
  ELSE NumToStr(n \div 10) \o <<DigitChar(n % 10)>>

IsDigit(c) == c \in {"0", "1", "2", "3", "4", "5", "6", "7", "8", "9"}

DigitVal(c) ==
  CASE c = "0" -> 0 [] c = "1" -> 1 [] c = "2" -> 2 [] c = "3" -> 3
    [] c = "4" -> 4 [] c = "5" -> 5 [] c = "6" -> 6 [] c = "7" -> 7
    [] c = "8" -> 8 [] c = "9" -> 9

\* The number a path segment of decimal digits names
RECURSIVE StrToNum(_)
StrToNum(s) ==
  IF s = <<>> THEN 0
  ELSE StrToNum(SubSeq(s, 1, Len(s) - 1)) * 10 + DigitVal(s[Len(s)])

\* The digits a string ends with
RECURSIVE TrailingDigits(_)
TrailingDigits(s) ==
  IF s = <<>> \/ ~IsDigit(s[Len(s)]) THEN <<>>
  ELSE TrailingDigits(SubSeq(s, 1, Len(s) - 1)) \o <<s[Len(s)]>>

\* The digits a string starts with: what a greedy \d+ takes
RECURSIVE LeadingDigits(_)
LeadingDigits(s) ==
  IF s = <<>> \/ ~IsDigit(s[1]) THEN <<>>
  ELSE <<s[1]>> \o LeadingDigits(Tail(s))

\* The letters the id patterns name; the i flag folds their case
LowerChar(c) ==
  CASE c = "B" -> "b" [] c = "C" -> "c" [] c = "D" -> "d" [] c = "E" -> "e"
    [] c = "I" -> "i" [] c = "M" -> "m" [] c = "O" -> "o" [] c = "R" -> "r"
    [] c = "S" -> "s" [] c = "T" -> "t" [] c = "V" -> "v" [] OTHER -> c

Lower(s) == [i \in 1..Len(s) |-> LowerChar(s[i])]

\* String.prototype.startsWith
StartsWith(s, pre) == Len(s) >= Len(pre) /\ SubSeq(s, 1, Len(pre)) = pre

\* s.slice(k)
Drop(s, k) == SubSeq(s, k + 1, Len(s))

-----------------------------------------------------------------------------
(* The upstream (TMDB).  A paged list holds the items 1..N in list order;   *)
(* an item is its TMDB id.  `pageLen` is the page size the upstream really  *)
(* serves and `total` says how it reports total_pages.                      *)

CeilDiv(a, b) == (a + b - 1) \div b

\* Response body of a list endpoint: { page, results, total_pages }
UpstreamPage(u, n) ==
  LET first == (n - 1) * u.pageLen
      cnt == Max(0, Min(u.pageLen, u.N - first))
      last == CeilDiv(u.N, u.pageLen)
  IN [results |-> [i \in 1..cnt |-> first + i],
      total_pages |-> CASE u.total = "exact" -> last
                        [] u.total = "absent" -> 0
                        [] u.total = "low" -> 1
                        [] u.total = "high" -> last + 1]

\* IMDb id of a title, as the upstream stores it
ImdbOf(n) == <<"t", "t", "0">> \o NumToStr(n)

\* Response of /{tv|movie}/{id}/external_ids for item n: how the HTTP
\* exchange ends and, when it ends well, the imdb_id field of the body.
ExternalIds(n) ==
  CASE n % 6 = 1 -> [status |-> "ok", imdb_id |-> StrV(ImdbOf(n))]
    [] n % 6 = 2 -> [status |-> "ok", imdb_id |-> Null]
    [] n % 6 = 3 -> [status |-> "neterr", imdb_id |-> Null]
    [] n % 6 = 4 -> [status |-> "non2xx", imdb_id |-> Null]
    [] n % 6 = 5 -> [status |-> "ok", imdb_id |-> StrV(<<>>)]
    [] n % 6 = 0 -> [status |-> "badbody", imdb_id |-> Null]

\* The title fields of item n of a list or of a recommendations page: name
\* and original_name of a series, title and original_title of a movie.  Some
\* items are malformed: a field is missing or empty.
TitlesOf(n) ==
  CASE n % 5 = 1 -> [name |-> StrV(<<"n">> \o NumToStr(n)),
                     original_name |-> StrV(<<"o">> \o NumToStr(n))]
    [] n % 5 = 2 -> [name |-> Undefined,
                     original_name |-> StrV(<<"o">> \o NumToStr(n))]
    [] n % 5 = 3 -> [name |-> StrV(<<>>),
                     original_name |-> StrV(<<"o">> \o NumToStr(n))]
    [] n % 5 = 4 -> [name |-> StrV(<<"n">> \o NumToStr(n)),
                     original_name |-> Undefined]
    [] n % 5 = 0 -> [name |-> Undefined, original_name |-> Undefined]

-----------------------------------------------------------------------------
(* External-id lookups *)

\* x || null
OrNull(v) == IF Truthy(v) THEN v ELSE Null

\* fetchImdbId of 1.1.0: fetch() rejects on a network error, a non-2xx
\* status returns null, r.json() rejects on an unreadable body.
fetchImdbId(resp) ==
  CASE resp.status = "neterr" -> Throw
    [] resp.status = "non2xx" -> Null
    [] resp.status = "badbody" -> Throw
    [] resp.status = "ok" -> OrNull(resp.imdb_id)

\* tmdb(path): rejects on a network error, a non-2xx status and an
\* unreadable body; otherwise the parsed body.
tmdb(resp) == [threw |-> resp.status # "ok", body |-> resp]

\* fetchImdbIdForSeries of 1.9.0, 2.1.0, 2.1.1
fetchImdbIdForSeries(resp) ==
  IF tmdb(resp).threw THEN Throw ELSE OrNull(tmdb(resp).body.imdb_id)

\* Mutant: the rejection of a lookup is not caught
NoCatch(v) == v

\* promise.catch(() => null)
CatchNull(v) == IF v = Throw THEN Null ELSE v

\* imdbForTv / imdbForMovie of 2.3.3: try { ... } catch { return null; }
imdbForTv(resp) ==
  IF tmdb(resp).threw THEN Null ELSE OrNull(tmdb(resp).body.imdb_id)

\* The value a lookup leaves in its Promise.all slot, per revision
LookupResult(r, resp) ==
  CASE r = "1.1.0" -> CatchNull(fetchImdbId(resp))
    [] r = "2.3.3" -> imdbForTv(resp)
    [] OTHER -> CatchNull(fetchImdbIdForSeries(resp))

-----------------------------------------------------------------------------
(* Meta previews *)

\* `tmdb:${nativeType}:${id}`
SyntheticId(nativeType, n) ==
  <<"t", "m", "d", "b", ":">>
    \o (IF nativeType = "movie" THEN <<"m", "o", "v", "i", "e">>
                                ELSE <<"t", "v">>)
    \o <<":">> \o NumToStr(n)

StremioType(nativeType) == IF nativeType = "movie" THEN "movie" ELSE "series"

\* Mutant: the resolved IMDb id is dropped
metaSyntheticOnly(nativeType, n, imdbId) ==
  [id |-> SyntheticId(nativeType, n), type |-> StremioType(nativeType),
   name |-> Or(TitlesOf(n).name, TitlesOf(n).original_name)]

\* toMetaPreviewFromTmdb / metaFromOnAir and the inline builders of 2.3.3:
\* the IMDb id when there is one, else the synthetic id
metaFromOnAir(nativeType, n, imdbId) ==
  [id |-> IF Truthy(imdbId) THEN imdbId.s ELSE SyntheticId(nativeType, n),
   type |-> StremioType(nativeType),
   name |-> Or(TitlesOf(n).name, TitlesOf(n).original_name)]

\* metaFromOnAirTmdbOnly / metaFromPopularMovie
metaFromOnAirTmdbOnly(nativeType, n) ==
  [id |-> SyntheticId(nativeType, n), type |-> StremioType(nativeType),
   name |-> Or(TitlesOf(n).name, TitlesOf(n).original_name)]

\* The inline builders of the recs rails: name: it.name / name: it.title
metaFromRec(nativeType, n, imdbId) ==
  [id |-> IF Truthy(imdbId) THEN imdbId.s ELSE SyntheticId(nativeType, n),
   type |-> StremioType(nativeType),
   name |-> TitlesOf(n).name]

-----------------------------------------------------------------------------
(* The patterns the meta and stream handlers match a request id against.  A *)
(* match is [ok, g1, g2]: whether the pattern matched and its capture       *)
(* groups, cut from the id as it was sent.                                  *)

NoRe == [ok |-> FALSE, g1 |-> <<>>, g2 |-> <<>>]

\* \d+$
AllDigits(s) == s # <<>> /\ \A i \in 1..Len(s) : IsDigit(s[i])

\* (?::\d+:\d+)?$
EpisodeSuffix(s) ==
  \/ s = <<>>
  \/ /\ s[1] = ":"
     /\ LET a == LeadingDigits(Tail(s))
            r == Drop(Tail(s), Len(a))
        IN a # <<>> /\ r # <<>> /\ r[1] = ":" /\ AllDigits(Tail(r))

\* Mutant: the pattern takes the hyphenated form only
MatchTmdbHyphen(id, episode) ==
  IF StartsWith(Lower(id), <<"t", "m", "d", "b", "-">>) /\ AllDigits(Drop(id, 5))
  THEN [ok |-> TRUE, g1 |-> <<"t", "v">>, g2 |-> Drop(id, 5)]
  ELSE NoRe

\* /^tmdb:(movie|tv):(\d+)$/i of the meta handlers; with `episode` the
\* pattern /^tmdb:(movie|tv):(\d+)(?::\d+:\d+)?$/i of the stream handlers
MatchTmdb(id, episode) ==
  LET l == Lower(id)
      typeLen == IF StartsWith(Drop(l, 5), <<"m", "o", "v", "i", "e", ":">>) THEN 5
                 ELSE IF StartsWith(Drop(l, 5), <<"t", "v", ":">>) THEN 2
                 ELSE 0
      rest == Drop(id, 5 + typeLen + 1)
      digits == LeadingDigits(rest)
      tail == Drop(rest, Len(digits))
  IN IF /\ StartsWith(l, <<"t", "m", "d", "b", ":">>)
        /\ typeLen > 0
        /\ digits # <<>>
        /\ IF episode THEN EpisodeSuffix(tail) ELSE tail = <<>>
     THEN [ok |-> TRUE, g1 |-> SubSeq(id, 6, 5 + typeLen), g2 |-> digits]
     ELSE NoRe

\* /^recs:(movie|series):(tt:tt\d+|tmdb-\d+)$/i
MatchRecs(id) ==
  LET l == Lower(id)
      kindLen == IF StartsWith(Drop(l, 5), <<"m", "o", "v", "i", "e", ":">>) THEN 5
                 ELSE IF StartsWith(Drop(l, 5), <<"s", "e", "r", "i", "e", "s", ":">>)
                      THEN 6
                 ELSE 0
      target == Drop(l, 5 + kindLen + 1)
  IN IF /\ StartsWith(l, <<"r", "e", "c", "s", ":">>)
        /\ kindLen > 0
        /\ \/ StartsWith(target, <<"t", "t", ":", "t", "t">>)
           \/ StartsWith(target, <<"t", "m", "d", "b", "-">>)
        /\ AllDigits(Drop(target, 5))
     THEN [ok |-> TRUE, g1 |-> SubSeq(id, 6, 5 + kindLen),
           g2 |-> Drop(id, 5 + kindLen + 1)]
     ELSE NoRe

\* /^(tt\d+)(?::\d+:\d+)?$/i
MatchImdb(id) ==
  LET digits == LeadingDigits(Drop(id, 2))
  IN IF /\ StartsWith(Lower(id), <<"t", "t">>)
        /\ digits # <<>>
        /\ EpisodeSuffix(Drop(id, 2 + Len(digits)))
     THEN [ok |-> TRUE, g1 |-> SubSeq(id, 1, 2 + Len(digits)), g2 |-> <<>>]
     ELSE NoRe

\* tm[1] === 'movie' ? 'movie' : 'tv'
TypeOfGroup(g) == IF g = <<"m", "o", "v", "i", "e">> THEN "movie" ELSE "tv"

\* A video id whose native target is written tmdb:{id}, which the recs
\* pattern does not accept
RecsVideoIdColon(kind, n, imdbId) ==
  <<"r", "e", "c", "s", ":">>
    \o (IF kind = "movie" THEN <<"m", "o", "v", "i", "e">>
                          ELSE <<"s", "e", "r", "i", "e", "s">>)
    \o <<":">>
    \o (IF Truthy(imdbId) THEN <<"t", "t", ":">> \o imdbId.s
                          ELSE <<"t", "m", "d", "b", ":">> \o NumToStr(n))

\* `recs:${kind}:${target}` with target = imdbId ? `tt:${imdbId}` : `tmdb-${item.id}`
RecsVideoId(kind, n, imdbId) ==
  <<"r", "e", "c", "s", ":">>
    \o (IF kind = "movie" THEN <<"m", "o", "v", "i", "e">>
                          ELSE <<"s", "e", "r", "i", "e", "s">>)
    \o <<":">>
    \o (IF Truthy(imdbId) THEN <<"t", "t", ":">> \o imdbId.s
                          ELSE <<"t", "m", "d", "b", "-">> \o NumToStr(n))

\* The locals of a meta or stream handler: which pattern the id matched,
\* isMovie, tmdbType, tmdbId and imdb (<<>> stands for null)
NoLocals ==
  [route |-> "none", isMovie |-> FALSE, tmdbType |-> "tv", tmdbId |-> <<>>,
   imdb |-> <<>>]

\* `found` before the reverse lookup returns
Unset == [tmdbType |-> "unset", tmdbId |-> 0]

\* { meta: {} }
EmptyMeta == [id |-> <<>>, type |-> "none", videos |-> <<>>]

-----------------------------------------------------------------------------
(* The catalog handler: list rails *)

DefaultCfg ==
  [enableOnAir |-> TRUE, enableRecsTv |-> TRUE, enableRecsMovie |-> TRUE,
   compatPopularImdb |-> FALSE]

\* The branch of defineCatalogHandler a request takes once the config
\* toggles have let it through
Rail(r, type, id) ==
  CASE r = "1.1.0" ->
         IF type # "series" \/ id # "tmdb-on-air" THEN "none" ELSE "onair"
    [] type = "series" /\ id = "tmdb-on-air" -> "onair"
    [] type = "series" /\ r = "1.9.0" /\ id = "tmdb-popular-series-s0" -> "popTv"
    [] type = "series" /\ r # "1.9.0" /\ id = "tmdb-popular-series" -> "popTv"
    [] type = "movie" /\ id = "tmdb-popular-movies" -> "popMovie"
    [] id \in {"tmdb-recs-movie", "tmdb-recs-series"} -> "recs"
    [] OTHER -> "none"

\* manifest.catalogs: the (type, id) pairs a revision declares
Declared(r, type, id) ==
  CASE r = "1.1.0" -> type = "series" /\ id = "tmdb-on-air"
    [] r = "1.9.0" ->
         \/ type = "series" /\ id \in {"tmdb-on-air", "tmdb-popular-series-s0",
                                       "tmdb-recs-series"}
         \/ type = "movie" /\ id \in {"tmdb-popular-movies", "tmdb-recs-movie"}
    [] OTHER ->
         \/ type = "series" /\ id \in {"tmdb-on-air", "tmdb-popular-series",
                                       "tmdb-recs-series"}
         \/ type = "movie" /\ id \in {"tmdb-popular-movies", "tmdb-recs-movie"}

\* Mutant: the toggles of the recs rails are not read
ToggledOffOnAirOnly(r, id, cfg) ==
  /\ r \in {"2.1.0", "2.1.1", "2.3.3"}
  /\ id = "tmdb-on-air" /\ cfg.enableOnAir = FALSE

\* "Respect config toggles" (2.1.0, 2.1.1, 2.3.3)
ToggledOff(r, id, cfg) ==
  /\ r \in {"2.1.0", "2.1.1", "2.3.3"}
  /\ \/ id = "tmdb-on-air" /\ cfg.enableOnAir = FALSE
     \/ id = "tmdb-recs-series" /\ cfg.enableRecsTv = FALSE
     \/ id = "tmdb-recs-movie" /\ cfg.enableRecsMovie = FALSE

\* Mutant: the page loop always starts at the first page
startPageFirst(skip) == 1

\* Mutant: the last page is computed for skip 0
endPageNoSkip(skip) == CeilDiv(maxReturn, tmdbPerPage)

startPage(skip) == (skip \div tmdbPerPage) + 1

\* Mutant: one page more than the window needs
endPageOneMore(skip) == CeilDiv(skip + maxReturn, tmdbPerPage) + 1

endPage(skip) == CeilDiv(skip + maxReturn, tmdbPerPage)

\* pages.flatMap(pg => pg.results || [])
RECURSIVE flatMap(_)
flatMap(pgs) ==
  IF pgs = <<>> THEN <<>> ELSE pgs[1].results \o flatMap(Tail(pgs))

\* Mutant: the slice starts at the head of the first fetched page
WindowOfNoOffset(pgs, skip) == Slice(flatMap(pgs), 0, maxReturn)

\* Mutant: all.slice(startOffset), the end of the slice left out
WindowOfNoEnd(pgs, skip) ==
  LET all == flatMap(pgs)
  IN Slice(all, skip % tmdbPerPage, Len(all))

\* all.slice(startOffset, startOffset + maxReturn)
WindowOf(pgs, skip) ==
  LET all == flatMap(pgs)
      startOffset == JsRem(skip, tmdbPerPage)
  IN Slice(all, startOffset, startOffset + maxReturn)

NativeType(rail) ==
  CASE rail = "popMovie" -> "movie"
    [] rail = "recs" -> resolved.tmdbType
    [] OTHER -> "tv"

\* Whether the rail resolves IMDb ids for its window
UsesLookups(r, rail, cfg) ==
  \/ rail = "onair"
  \/ r = "2.3.3" /\ rail \in {"popTv", "popMovie"} /\ cfg.compatPopularImdb

CurRail == Rail(rev, req.type, req.id)

\* window.map((tv, i) => metaFromOnAir(tv, imdbIds[i]))
MetasWithIds(nativeType, w, ids) ==
  [i \in 1..Len(w) |->
     IF CurRail = "recs" THEN metaFromRec(nativeType, w[i], ids[i])
                         ELSE metaFromOnAir(nativeType, w[i], ids[i])]

\* window.map(metaFromOnAirTmdbOnly)
MetasTmdbOnly(nativeType, w) ==
  [i \in 1..Len(w) |->
     IF CurRail = "recs" THEN metaFromRec(nativeType, w[i], Null)
                         ELSE metaFromOnAirTmdbOnly(nativeType, w[i])]

\* return { metas }
Return(ms) ==
  /\ pc' = "done"
  /\ metas' = ms
  /\ outcome' = "ok"

\* The handler's promise rejects
Reject ==
  /\ pc' = "done"
  /\ metas' = <<>>
  /\ outcome' = "error"

\* The rest of a rail once its window is sliced: either start the lookups
\* of the window (Promise.all) or build the metas at once.
ResolveWindow(w, nt, lookups) ==
  /\ window' = w
  /\ IF lookups /\ w # <<>>
     THEN /\ pc' = "lookups"
          /\ imdbIds' = [i \in 1..Len(w) |-> Pending]
          /\ reads' = reads + Len(w)
          /\ UNCHANGED <<metas, outcome>>
     ELSE /\ imdbIds' = <<>>
          /\ UNCHANGED reads
          /\ Return(MetasTmdbOnly(nt, w))

\* Mutant: every fetched item is resolved, not the sliced window alone
AfterPagesAll(pgs) ==
  ResolveWindow(flatMap(pgs), NativeType(CurRail),
                UsesLookups(rev, CurRail, req.cfg))

\* After the page loop: flatten, slice, resolve
AfterPages(pgs) ==
  ResolveWindow(WindowOf(pgs, req.skip), NativeType(CurRail),
                UsesLookups(rev, CurRail, req.cfg))

\* The handler is entered
CatalogRequest(r) ==
  /\ pc = "idle"
  /\ req' = r
  /\ CASE ToggledOff(rev, r.id, r.cfg) \/ Rail(rev, r.type, r.id) = "none" ->
            /\ Return(<<>>)
            /\ UNCHANGED <<reads, p, requested>>
       [] Rail(rev, r.type, r.id) = "recs" ->
            \* resolveQueryToTmdb up to its first await
            IF r.search = "" THEN /\ Return(<<>>)
                                  /\ UNCHANGED <<reads, p, requested>>
            ELSE /\ pc' = IF r.search = "tt" THEN "find" ELSE "searchMovie"
                 /\ reads' = reads + 1
                 /\ UNCHANGED <<p, requested, metas, outcome>>
       [] OTHER ->
            /\ pc' = "pages"
            /\ p' = startPage(r.skip)
            /\ requested' = <<startPage(r.skip)>>
            /\ reads' = reads + 1
            /\ UNCHANGED <<metas, outcome>>
  /\ UNCHANGED handlerVars
  /\ UNCHANGED <<rev, up, failed, resolved, collected, pages, window, imdbIds,
                 overtaken>>

\* Mutant: the last-page check never stops the loop
IsLastPageNever(n, data) == FALSE

\* `p >= (data.total_pages || p)`
\* The upstream numbers its pages from 1 and answers any other page number
\* with an error status, which tmdb() throws
UpstreamRejects(n) == n < 1

IsLastPage(n, data) ==
  n >= (IF data.total_pages # 0 THEN data.total_pages ELSE n)

\* Mutant: the loop does not await; the next two pages are asked for at once
PageOkTwoAhead ==
  /\ pc = "pages"
  /\ LET data == UpstreamPage(up, p)
         pgs == Append(pages, data)
     IN /\ pages' = pgs
        /\ IF ~IsLastPage(p, data) /\ p + 1 <= endPage(req.skip)
           THEN /\ p' = p + 1
                /\ requested' = requested \o <<p + 1, p + 2>>
                /\ reads' = reads + 1
                /\ UNCHANGED <<pc, window, imdbIds, metas, outcome>>
           ELSE /\ AfterPages(pgs)
                /\ UNCHANGED <<p, requested>>
  /\ UNCHANGED handlerVars
  /\ UNCHANGED <<rev, up, req, failed, resolved, collected, overtaken>>

\* The response of the page fetch arrives: push, last-page check, next
\* iteration or the rest of the handler
PageOk ==
  /\ pc = "pages"
  /\ ~UpstreamRejects(p)
  /\ LET data == UpstreamPage(up, p)
         pgs == Append(pages, data)
     IN /\ pages' = pgs
        /\ IF ~IsLastPage(p, data) /\ p + 1 <= endPage(req.skip)
           THEN /\ p' = p + 1
                /\ requested' = Append(requested, p + 1)
                /\ reads' = reads + 1
                /\ UNCHANGED <<pc, window, imdbIds, metas, outcome>>
           ELSE /\ AfterPages(pgs)
                /\ UNCHANGED <<p, requested>>
  /\ UNCHANGED handlerVars
  /\ UNCHANGED <<rev, up, req, failed, resolved, collected, overtaken>>

\* The page fetch fails (network error or non-2xx): 1.1.0 catches and
\* breaks out of the loop, the later revisions let the error through.
PageFail ==
  /\ pc = "pages"
  /\ IF rev = "1.1.0"
     THEN AfterPages(pages)
     ELSE Reject /\ UNCHANGED <<window, imdbIds, reads>>
  /\ failed' = failed \cup {"page"}
  /\ UNCHANGED handlerVars
  /\ UNCHANGED <<rev, up, req, resolved, collected, p, pages, requested,
                 overtaken>>

\* Index of the oldest lookup still in flight (Len + 1 when there is none)
RECURSIVE FirstPendingFrom(_, _)
FirstPendingFrom(ids, i) ==
  IF i > Len(ids) \/ ids[i] = Pending THEN i ELSE FirstPendingFrom(ids, i + 1)

LowestPending(ids) == FirstPendingFrom(ids, 1)

\* Mutant: results are pushed in the order the responses arrive
StoreInArrivalOrder(ids, i, v) == [ids EXCEPT ![FirstPendingFrom(ids, 1)] = v]

\* Promise.all keeps the result of lookup i in slot i
StoreResult(ids, i, v) == [ids EXCEPT ![i] = v]

\* The response of the external-id lookup of window item i arrives; after
\* the last one Promise.all resolves and the metas are built.
LookupResponse(i) ==
  /\ pc = "lookups"
  /\ i \in DOMAIN imdbIds
  /\ imdbIds[i] = Pending
  /\ LET v == LookupResult(rev, ExternalIds(window[i]))
         ids == StoreResult(imdbIds, i, v)
     IN /\ imdbIds' = ids
        /\ overtaken' = (overtaken \/ i # LowestPending(imdbIds))
        /\ CASE v = Throw -> Reject   \* Promise.all rejects with the lookup
             [] v # Throw /\ \E j \in DOMAIN ids : ids[j] = Pending ->
                  UNCHANGED <<pc, metas, outcome>>
             [] OTHER -> Return(MetasWithIds(NativeType(CurRail), window, ids))
  /\ UNCHANGED handlerVars
  /\ UNCHANGED <<rev, up, req, reads, failed, resolved, collected, p, pages,
                 requested, window>>

-----------------------------------------------------------------------------
(* The catalog handler: search-triggered recommendation rails *)

NoMatch == [tmdbType |-> "none", tmdbId |-> 0]

\* TMDB ids of the titles the upstream answers a query with
MovieHit == 550
TvHit == 1399

\* Mutant: tv_results is tried before movie_results
FirstMatchTvFirst(data) ==
  CASE data.tv_results # <<>> ->
         [tmdbType |-> "tv", tmdbId |-> data.tv_results[1]]
    [] data.movie_results # <<>> ->
         [tmdbType |-> "movie", tmdbId |-> data.movie_results[1]]
    [] OTHER -> NoMatch

\* findTmdbFromImdb / tmdbFromImdb / the tt branch of resolveQueryToTmdb on
\* the body of /find/{imdb}: movie_results first, then tv_results
FirstMatch(data) ==
  CASE data.movie_results # <<>> ->
         [tmdbType |-> "movie", tmdbId |-> data.movie_results[1]]
    [] data.tv_results # <<>> ->
         [tmdbType |-> "tv", tmdbId |-> data.tv_results[1]]
    [] OTHER -> NoMatch

\* Body of /find/{imdb}?external_source=imdb_id
FindBody(u) ==
  [movie_results |-> IF u.hits.movie THEN <<MovieHit, MovieHit + 1>> ELSE <<>>,
   tv_results |-> IF u.hits.tv THEN <<TvHit, TvHit + 1>> ELSE <<>>]

\* The title branch of resolveQueryToTmdb on the top hits of /search/movie
\* and /search/tv: the more popular one, a tie going to the movie
TopHit(u) ==
  CASE u.hits.movie /\ u.hits.tv ->
         IF u.hits.mPop >= u.hits.tPop
         THEN [tmdbType |-> "movie", tmdbId |-> MovieHit]
         ELSE [tmdbType |-> "tv", tmdbId |-> TvHit]
    [] u.hits.movie -> [tmdbType |-> "movie", tmdbId |-> MovieHit]
    [] u.hits.tv -> [tmdbType |-> "tv", tmdbId |-> TvHit]
    [] OTHER -> NoMatch

\* Mutant: both search rails want a movie
wantTypeMovie(id) == "movie"

\* const wantType = (id === 'tmdb-recs-movie') ? 'movie' : 'tv'
wantType(id) == IF id = "tmdb-recs-movie" THEN "movie" ELSE "tv"

\* Whether the recs rail looks up an IMDb id for each item of its slice
RecsLookups(r, nt) == nt = "movie" \/ r = "2.3.3"

\* Mutant: the loop has no cap on the page number
RecsLoopGuardNoCap(coll, skip, page) == Len(coll) < skip + PAGE_SIZE

\* `collected.length < skip + PAGE_SIZE && page <= 10`
RecsLoopGuard(coll, skip, page) ==
  Len(coll) < skip + PAGE_SIZE /\ page <= MaxRecsPage

\* collected.slice(skip, skip + PAGE_SIZE), then the metas of the slice
AfterRecs(coll, res) ==
  ResolveWindow(Slice(coll, req.skip, req.skip + PAGE_SIZE), res.tmdbType,
                RecsLookups(rev, res.tmdbType))

\* The handler once resolveQueryToTmdb has returned `res`: the two early
\* returns, then the first iteration of the recommendations loop
Resolved(res) ==
  /\ resolved' = res
  /\ IF res = NoMatch \/ res.tmdbType # wantType(req.id)
     THEN /\ Return(<<>>)
          /\ UNCHANGED <<reads, p, requested, window, imdbIds>>
     ELSE IF RecsLoopGuard(<<>>, req.skip, 1)
     THEN /\ pc' = "recs"
          /\ p' = 1
          /\ requested' = <<1>>
          /\ reads' = reads + 1
          /\ UNCHANGED <<window, imdbIds, metas, outcome>>
     ELSE /\ p' = 1
          /\ AfterRecs(<<>>, res)
          /\ UNCHANGED requested

\* The response of /find arrives
FindOk ==
  /\ pc = "find"
  /\ Resolved(FirstMatch(FindBody(up)))
  /\ UNCHANGED handlerVars
  /\ UNCHANGED <<rev, up, req, failed, collected, pages, overtaken>>

\* The response of /search/movie arrives; /search/tv is requested
SearchMovieOk ==
  /\ pc = "searchMovie"
  /\ pc' = "searchTv"
  /\ reads' = reads + 1
  /\ UNCHANGED handlerVars
  /\ UNCHANGED <<rev, up, req, failed, resolved, collected, p, pages, requested,
                 window, imdbIds, overtaken, metas, outcome>>

\* The response of /search/tv arrives
SearchTvOk ==
  /\ pc = "searchTv"
  /\ Resolved(TopHit(up))
  /\ UNCHANGED handlerVars
  /\ UNCHANGED <<rev, up, req, failed, collected, pages, overtaken>>

\* A read of resolveQueryToTmdb or getRecs fails: nothing catches it
RecsFail ==
  /\ pc \in {"find", "searchMovie", "searchTv", "recs"}
  /\ Reject
  /\ failed' = failed \cup {pc}
  /\ UNCHANGED handlerVars
  /\ UNCHANGED <<rev, up, req, reads, resolved, collected, p, pages, requested,
                 window, imdbIds, overtaken>>

\* A page of recommendations arrives: concat, last-page check, page++
RecsOk ==
  /\ pc = "recs"
  /\ LET recs == UpstreamPage(up, p)
         coll == collected \o recs.results
     IN /\ collected' = coll
        /\ IF ~IsLastPage(p, recs) /\ RecsLoopGuard(coll, req.skip, p + 1)
           THEN /\ p' = p + 1
                /\ requested' = Append(requested, p + 1)
                /\ reads' = reads + 1
                /\ UNCHANGED <<pc, window, imdbIds, metas, outcome>>
           ELSE /\ p' = IF IsLastPage(p, recs) THEN p ELSE p + 1
                /\ AfterRecs(coll, resolved)
                /\ UNCHANGED requested
  /\ UNCHANGED handlerVars
  /\ UNCHANGED <<rev, up, req, failed, resolved, pages, overtaken>>

-----------------------------------------------------------------------------
(* Specification *)

Revs == {"1.1.0", "1.9.0", "2.1.0", "2.3.3"}

Types == {"series", "movie"}

CatalogIds ==
  {"tmdb-on-air", "tmdb-popular-series", "tmdb-popular-series-s0",
   "tmdb-popular-movies", "tmdb-recs-movie", "tmdb-recs-series", "other"}

\* Offsets within a page and list sizes around the page boundaries
Edge(n) == n % tmdbPerPage \in {0, 1, tmdbPerPage - 1}

\* An offset deep in the list: five items before the end of page 5
DeepSkip == 5 * tmdbPerPage - 5

\* An offset whose window of recommendations ends beyond page 10
FarSkip == (MaxRecsPage - 2) * tmdbPerPage

Skips == {s \in 0..MaxSkip : Edge(s)} \cup {DeepSkip, FarSkip}

Sizes ==
  {n \in 0..MaxN : Edge(n) /\ n <= 2 * tmdbPerPage + 1}
    \cup {MaxN - 4, MaxN}

Searches == {"", "tt", "title"}

\* The config varies in the toggles the requested rail reads
Configs(id) ==
  {c \in [enableOnAir : BOOLEAN, enableRecsTv : BOOLEAN,
          enableRecsMovie : BOOLEAN, compatPopularImdb : BOOLEAN] :
     /\ c.enableOnAir = FALSE => id = "tmdb-on-air"
     /\ c.enableRecsTv = FALSE => id = "tmdb-recs-series"
     /\ c.enableRecsMovie = FALSE => id = "tmdb-recs-movie"
     /\ c.compatPopularImdb =>
          id \in {"tmdb-popular-series", "tmdb-popular-movies"}}

\* The requests: the search text is read by the recs rails alone; a rail
\* is asked for under the other type, by title and with a config other than
\* the default one at skip 0
Requests ==
  {r \in [type : Types, id : CatalogIds, skip : Skips, search : Searches,
          cfg : Configs("tmdb-on-air") \cup Configs("tmdb-recs-series")
                  \cup Configs("tmdb-recs-movie")
                  \cup Configs("tmdb-popular-movies")] :
     /\ r.cfg \in Configs(r.id)
     /\ r.search # "" => r.id \in {"tmdb-recs-movie", "tmdb-recs-series"}
     /\ r.skip # 0 => r.search # "title" /\ r.cfg = DefaultCfg
     /\ r.skip # 0 =>
          \/ r.type = "movie" /\ r.id \in {"tmdb-popular-movies", "tmdb-recs-movie"}
          \/ r.type = "series" /\ r.id \notin {"tmdb-popular-movies", "tmdb-recs-movie"}}

MovieOnly == [movie |-> TRUE, tv |-> FALSE, mPop |-> 1, tPop |-> 0]

Hits == [movie : BOOLEAN, tv : BOOLEAN, mPop : 0..1, tPop : 0..1]

Upstreams ==
  [N : Sizes, pageLen : {tmdbPerPage}, total : {"exact"}, hits : {MovieOnly}]
    \cup [N : {2 * tmdbPerPage + 1}, pageLen : {tmdbPerPage},
          total : {"absent", "low"}, hits : {MovieOnly}]
    \cup [N : {MaxN}, pageLen : {tmdbPerPage + 1}, total : {"exact"},
          hits : {MovieOnly}]
    \cup [N : {MaxRecsPage * tmdbPerPage + 1}, pageLen : {tmdbPerPage},
          total : {"exact"}, hits : {MovieOnly}]
    \cup [N : {1}, pageLen : {tmdbPerPage}, total : {"exact"}, hits : Hits]

\* No request has been answered yet
NoPrior ==
  [req |-> [type |-> "series", id |-> "other", skip |-> 0, search |-> "",
            cfg |-> DefaultCfg],
   metas |-> <<>>, outcome |-> "none", failed |-> {}, overtaken |-> FALSE]

\* The handler is not running: its locals do not exist
Quiet ==
  /\ pc = "idle"
  /\ reads = 0
  /\ failed = {}
  /\ resolved = NoMatch
  /\ collected = <<>>
  /\ p = 0
  /\ pages = <<>>
  /\ requested = <<>>
  /\ window = <<>>
  /\ imdbIds = <<>>
  /\ overtaken = FALSE
  /\ metas = <<>>
  /\ locals = NoLocals
  /\ found = Unset
  /\ meta = EmptyMeta
  /\ streams = <<>>
  /\ outcome = "none"
  /\ prior = NoPrior

Init ==
  /\ rev \in Revs
  /\ up \in Upstreams
  /\ req = [type |-> "series", id |-> "other", skip |-> 0, search |-> "",
            cfg |-> DefaultCfg]
  /\ Quiet

Next ==
  \/ \E r \in Requests : CatalogRequest(r)
  \/ PageOk
  \/ PageFail
  \/ FindOk
  \/ SearchMovieOk
  \/ SearchTvOk
  \/ RecsOk
  \/ RecsFail
  \/ \E d \in 0..MaxOvertake : LookupResponse(LowestPending(imdbIds) + d)

Spec == Init /\ [][Next]_vars

-----------------------------------------------------------------------------
(* Two catalog requests in a row.  The add-on keeps nothing between two     *)
(* requests: when the first response is out, the locals of the handler are  *)
(* gone and the next request starts from scratch.                           *)

\* Mutant: the fetched pages are kept in a list that outlives the request
RespondKeepsPages ==
  /\ pc = "done"
  /\ prior = NoPrior
  /\ prior' = [req |-> req, metas |-> metas, outcome |-> outcome,
               failed |-> failed, overtaken |-> overtaken]
  /\ pc' = "idle"
  /\ reads' = 0
  /\ failed' = {}
  /\ resolved' = NoMatch
  /\ p' = 0
  /\ requested' = <<>>
  /\ window' = <<>>
  /\ imdbIds' = <<>>
  /\ overtaken' = FALSE
  /\ metas' = <<>>
  /\ outcome' = "none"
  /\ UNCHANGED <<rev, up, req, locals, found, meta, streams, pages, collected>>

\* The response of the first request is sent
Respond ==
  /\ pc = "done"
  /\ prior = NoPrior
  /\ prior' = [req |-> req, metas |-> metas, outcome |-> outcome,
               failed |-> failed, overtaken |-> overtaken]
  /\ pc' = "idle"
  /\ reads' = 0
  /\ failed' = {}
  /\ resolved' = NoMatch
  /\ collected' = <<>>
  /\ p' = 0
  /\ pages' = <<>>
  /\ requested' = <<>>
  /\ window' = <<>>
  /\ imdbIds' = <<>>
  /\ overtaken' = FALSE
  /\ metas' = <<>>
  /\ outcome' = "none"
  /\ UNCHANGED <<rev, up, req, locals, found, meta, streams>>

\* The second request repeats the first
Repeats(r) == prior # NoPrior => r = prior.req

\* Lists of at most two pages and a page: the second request multiplies the
\* interleavings of the lookups
TwiceUpstreams == {u \in Upstreams : u.N <= 2 * tmdbPerPage + 1}

InitTwice ==
  /\ rev \in Revs
  /\ up \in TwiceUpstreams
  /\ req = NoPrior.req
  /\ Quiet

NextTwice ==
  \/ \E r \in Requests : Repeats(r) /\ CatalogRequest(r)
  \/ PageOk
  \/ PageFail
  \/ FindOk
  \/ SearchMovieOk
  \/ SearchTvOk
  \/ RecsOk
  \/ RecsFail
  \/ \E d \in 0..MaxOvertake : LookupResponse(LowestPending(imdbIds) + d)
  \/ Respond

SpecTwice == InitTwice /\ [][NextTwice]_vars

-----------------------------------------------------------------------------
(* One search query sent to both search rails, one request after the other, *)
(* against the same upstream.                                               *)

OtherRecsRail(id) ==
  CASE id = "tmdb-recs-movie" -> "tmdb-recs-series"
    [] id = "tmdb-recs-series" -> "tmdb-recs-movie"
    [] OTHER -> id

\* The second request carries the query of the first to the other search
\* rail; a list rail is asked again
SameQuery(r) ==
  prior # NoPrior =>
    /\ r.search = prior.req.search
    /\ r.skip = prior.req.skip
    /\ r.id = OtherRecsRail(prior.req.id)

\* What the query resolves to varies; the lists are at most one item long
PairUpstreams == {u \in Upstreams : u.N <= 1}

InitPair ==
  /\ rev \in Revs
  /\ up \in PairUpstreams
  /\ req = NoPrior.req
  /\ Quiet

NextPair ==
  \/ \E r \in Requests : SameQuery(r) /\ CatalogRequest(r)
  \/ PageOk
  \/ PageFail
  \/ FindOk
  \/ SearchMovieOk
  \/ SearchTvOk
  \/ RecsOk
  \/ RecsFail
  \/ \E d \in 0..MaxOvertake : LookupResponse(LowestPending(imdbIds) + d)
  \/ Respond

SpecPair == InitPair /\ [][NextPair]_vars

-----------------------------------------------------------------------------
(* Requests whose skip is below zero: Number(extra?.skip || 0) is whatever  *)
(* number the caller wrote, and nothing checks its sign.                    *)

\* One item, one page and one window before the start of the list
NegativeSkips == {0 - 1, 0 - tmdbPerPage, 0 - (maxReturn + tmdbPerPage)}

SkipRequests ==
  {r \in Requests : r.skip = 0}
    \cup {[r EXCEPT !.skip = s] :
            r \in {q \in Requests : q.skip = 0 /\ q.cfg = DefaultCfg},
            s \in NegativeSkips}

InitSkip ==
  /\ rev \in Revs
  /\ up \in TwiceUpstreams
  /\ req = NoPrior.req
  /\ Quiet

NextSkip ==
  \/ \E r \in SkipRequests : CatalogRequest(r)
  \/ PageOk
  \/ PageFail
  \/ FindOk
  \/ SearchMovieOk
  \/ SearchTvOk
  \/ RecsOk
  \/ RecsFail
  \/ \E d \in 0..MaxOvertake : LookupResponse(LowestPending(imdbIds) + d)

SpecSkip == InitSkip /\ [][NextSkip]_vars

-----------------------------------------------------------------------------
(* The meta handler (1.9.0, 2.1.0, 2.1.1, 2.3.3) *)

MetaRevs == {"1.9.0", "2.1.0", "2.1.1", "2.3.3"}

\* first10 of 1.9.0, first20 of the later revisions
FirstCount(r) == IF r = "1.9.0" THEN 10 ELSE 20

MovieGroup == <<"m", "o", "v", "i", "e">>

\* meta.type: the tmdb page of 2.3.3 echoes the request type
MetaType(r, rq, loc) ==
  CASE loc.route = "recs" -> (IF loc.isMovie THEN "movie" ELSE "series")
    [] loc.route # "recs" /\ r = "2.3.3" -> rq.type
    [] OTHER -> StremioType(loc.tmdbType)

\* One entry of meta.videos
VideoOf(tmdbType, i, n, imdbId) ==
  [episode |-> i, id |-> RecsVideoId(StremioType(tmdbType), n, imdbId)]

Videos(tmdbType, w, ids) ==
  [i \in 1..Len(w) |-> VideoOf(tmdbType, i, w[i], ids[i])]

MetaOf(r, rq, loc, vids) ==
  [id |-> rq.id, type |-> MetaType(r, rq, loc), videos |-> vids]

MetaReturn(mt) ==
  /\ pc' = "done"
  /\ meta' = mt
  /\ outcome' = "ok"

MetaReject ==
  /\ pc' = "done"
  /\ meta' = EmptyMeta
  /\ outcome' = "error"

\* The locals after the id matched the recs pattern of the meta handler
RecsLocals(r, rm) ==
  LET isMovie == rm.g1 = MovieGroup
      byImdb == StartsWith(rm.g2, <<"t", "t", ":">>)
  IN [route |-> "recs", isMovie |-> isMovie,
      tmdbType |-> IF isMovie THEN "movie" ELSE "tv",
      tmdbId |-> IF r = "2.3.3" \/ byImdb THEN <<>> ELSE Drop(rm.g2, 5),
      imdb |-> IF r # "2.3.3" /\ byImdb THEN Drop(rm.g2, 3) ELSE <<>>]

\* A meta request arrives: the id is matched and the first reads go out
MetaRequest(rq) ==
  /\ pc = "idle"
  /\ rq.handler = "meta"
  /\ req' = rq
  /\ LET tm == MatchTmdb(rq.id, FALSE)
         rm == MatchRecs(rq.id)
     IN CASE tm.ok ->
               /\ locals' = [route |-> "tmdb",
                             isMovie |-> TypeOfGroup(tm.g1) = "movie",
                             tmdbType |-> TypeOfGroup(tm.g1),
                             tmdbId |-> tm.g2, imdb |-> <<>>]
               /\ pc' = "details"
               /\ reads' = reads + (IF rev = "2.3.3" THEN 1 ELSE 2)
               /\ UNCHANGED <<meta, outcome>>
          [] ~tm.ok /\ rm.ok /\ rev # "1.9.0" ->
               /\ locals' = RecsLocals(rev, rm)
               /\ IF rev = "2.3.3"
                  THEN /\ MetaReturn(MetaOf(rev, rq, RecsLocals(rev, rm), <<>>))
                       /\ UNCHANGED reads
                  ELSE /\ pc' = IF RecsLocals(rev, rm).imdb # <<>>
                                THEN "reverse" ELSE "title"
                       /\ reads' = reads + 1
                       /\ UNCHANGED <<meta, outcome>>
          [] OTHER ->
               /\ locals' = NoLocals
               /\ MetaReturn(EmptyMeta)
               /\ UNCHANGED reads
  /\ UNCHANGED catalogVars
  /\ UNCHANGED <<rev, up, failed, window, imdbIds, overtaken, found, streams>>

\* tmdb page: /{type}/{id} answers (the external_ids read awaited with it
\* is caught and feeds only meta.links); getRecs goes out
MetaDetailsOk ==
  /\ pc = "details"
  /\ req.handler = "meta"
  /\ pc' = "recsPage"
  /\ reads' = reads + 1
  /\ UNCHANGED catalogVars
  /\ UNCHANGED <<rev, up, req, failed, window, imdbIds, overtaken, locals,
                 found, meta, streams, outcome>>

\* tmdb page: /{type}/{id} fails and nothing catches it
MetaDetailsFail ==
  /\ pc = "details"
  /\ req.handler = "meta"
  /\ MetaReject
  /\ failed' = failed \cup {"details"}
  /\ UNCHANGED catalogVars
  /\ UNCHANGED <<rev, up, req, reads, window, imdbIds, overtaken, locals,
                 found, streams>>

\* recs page of 2.1.0 and 2.1.1: /find answers
MetaReverseOk ==
  /\ pc = "reverse"
  /\ req.handler = "meta"
  /\ LET f == FirstMatch(FindBody(up))
         loc == IF f # NoMatch
                THEN [locals EXCEPT !.tmdbType = f.tmdbType,
                                    !.tmdbId = NumToStr(f.tmdbId)]
                ELSE locals
     IN /\ found' = f
        /\ locals' = loc
        /\ IF loc.tmdbId # <<>>
           THEN /\ pc' = "title"
                /\ reads' = reads + 1
                /\ UNCHANGED <<meta, outcome>>
           ELSE /\ MetaReturn(MetaOf(rev, req, loc, <<>>))
                /\ UNCHANGED reads
  /\ UNCHANGED catalogVars
  /\ UNCHANGED <<rev, up, req, failed, window, imdbIds, overtaken, streams>>

\* recs page of 2.1.0 and 2.1.1: /find fails; findTmdbFromImdb has no catch
\* and neither has its caller
MetaReverseFail ==
  /\ pc = "reverse"
  /\ req.handler = "meta"
  /\ MetaReject
  /\ failed' = failed \cup {"find"}
  /\ UNCHANGED catalogVars
  /\ UNCHANGED <<rev, up, req, reads, window, imdbIds, overtaken, locals,
                 found, streams>>

\* recs page: /{type}/{id} answers inside the try; external_ids is read
\* next when no imdb id is known yet, else getRecs
MetaTitleOk ==
  /\ pc = "title"
  /\ req.handler = "meta"
  /\ pc' = IF locals.imdb = <<>> THEN "ext" ELSE "recsPage"
  /\ reads' = reads + 1
  /\ UNCHANGED catalogVars
  /\ UNCHANGED <<rev, up, req, failed, window, imdbIds, overtaken, locals,
                 found, meta, streams, outcome>>

\* recs page: /{type}/{id} fails; catch (_) {} and on to getRecs
MetaTitleFail ==
  /\ pc = "title"
  /\ req.handler = "meta"
  /\ pc' = "recsPage"
  /\ reads' = reads + 1
  /\ failed' = failed \cup {"title"}
  /\ UNCHANGED catalogVars
  /\ UNCHANGED <<rev, up, req, window, imdbIds, overtaken, locals, found, meta,
                 streams, outcome>>

\* imdb = ext.imdb_id || null, null too when the read threw into a catch
ImdbFrom(resp) ==
  IF ~tmdb(resp).threw /\ Truthy(tmdb(resp).body.imdb_id)
  THEN tmdb(resp).body.imdb_id.s
  ELSE <<>>

\* recs page: the external_ids read of the try ends, well or not
MetaExtIds ==
  /\ pc = "ext"
  /\ req.handler = "meta"
  /\ LET resp == ExternalIds(StrToNum(locals.tmdbId))
     IN /\ locals' = [locals EXCEPT !.imdb = ImdbFrom(resp)]
        /\ failed' = IF tmdb(resp).threw THEN failed \cup {"ext"} ELSE failed
  /\ pc' = "recsPage"
  /\ reads' = reads + 1
  /\ UNCHANGED catalogVars
  /\ UNCHANGED <<rev, up, req, window, imdbIds, overtaken, found, meta, streams,
                 outcome>>

\* getRecs answers: the first items are cut and their lookups go out
MetaRecsOk ==
  /\ pc = "recsPage"
  /\ LET first == Slice(UpstreamPage(up, 1).results, 0, FirstCount(rev))
     IN /\ window' = first
        /\ IF first = <<>>
           THEN /\ imdbIds' = <<>>
                /\ MetaReturn(MetaOf(rev, req, locals, <<>>))
                /\ UNCHANGED reads
           ELSE /\ imdbIds' = [i \in 1..Len(first) |-> Pending]
                /\ pc' = "videos"
                /\ reads' = reads + Len(first)
                /\ UNCHANGED <<meta, outcome>>
  /\ UNCHANGED catalogVars
  /\ UNCHANGED <<rev, up, req, failed, overtaken, locals, found, streams>>

\* getRecs fails and nothing catches it
MetaRecsFail ==
  /\ pc = "recsPage"
  /\ MetaReject
  /\ failed' = failed \cup {"recs"}
  /\ UNCHANGED catalogVars
  /\ UNCHANGED <<rev, up, req, reads, window, imdbIds, overtaken, locals,
                 found, streams>>

\* The external-id lookup of recommendation i ends; a failure is caught and
\* leaves null; after the last one Promise.all resolves with meta.videos
MetaVideoLookup(i) ==
  /\ pc = "videos"
  /\ i \in DOMAIN imdbIds
  /\ imdbIds[i] = Pending
  /\ LET v == LookupResult(rev, ExternalIds(window[i]))
         ids == StoreResult(imdbIds, i, v)
     IN /\ imdbIds' = ids
        /\ overtaken' = (overtaken \/ i # LowestPending(imdbIds))
        /\ IF \E j \in DOMAIN ids : ids[j] = Pending
           THEN UNCHANGED <<pc, meta, outcome>>
           ELSE MetaReturn(MetaOf(rev, req, locals,
                                  Videos(locals.tmdbType, window, ids)))
  /\ UNCHANGED catalogVars
  /\ UNCHANGED <<rev, up, req, reads, failed, window, locals, found, streams>>

-----------------------------------------------------------------------------
(* The stream handler (1.9.0, 2.1.1, 2.3.3; the text of the 2.1.0 handler   *)
(* breaks off after its first lines)                                        *)

StreamRevs == {"1.9.0", "2.1.1", "2.3.3"}

StreamReturn(rows) ==
  /\ pc' = "done"
  /\ streams' = rows
  /\ outcome' = "ok"

\* The rows of a recs:* item: details when the imdb id is known, else a
\* search, then the "See more" rows
StreamRecsRows(r, loc) ==
  LET first == IF loc.imdb # <<>> THEN "details" ELSE "search"
  IN CASE r = "1.9.0" -> <<[name |-> first, browser |-> FALSE]>>
       [] r # "1.9.0" ->
            <<[name |-> first, browser |-> FALSE],
              [name |-> first, browser |-> TRUE]>>
              \o IF r = "2.1.1" \/ loc.tmdbId # <<>>
                 THEN <<[name |-> "more", browser |-> FALSE],
                        [name |-> "more", browser |-> TRUE]>>
                 ELSE <<>>

\* The rows of an IMDb or tmdb:* item
RecRows(r) ==
  IF r = "1.9.0"
  THEN <<[name |-> "recs", browser |-> FALSE]>>
  ELSE <<[name |-> "recs", browser |-> FALSE], [name |-> "recs", browser |-> TRUE]>>

\* imdb and tmdbId of a recs:* item, from the captured target
StreamRecsLocals(r, rc) ==
  LET isMovie == Lower(rc.g1) = MovieGroup
      tt == StartsWith(rc.g2, <<"t", "t", ":">>)
      dash == StartsWith(rc.g2, <<"t", "m", "d", "b", "-">>)
  IN [route |-> "recs", isMovie |-> isMovie,
      tmdbType |-> IF isMovie THEN "movie" ELSE "tv",
      imdb |-> IF tt THEN Drop(rc.g2, 3) ELSE <<>>,
      tmdbId |-> IF r = "2.3.3"
                 THEN (IF dash THEN Drop(rc.g2, 5) ELSE <<>>)
                 ELSE (IF tt THEN <<>> ELSE Drop(rc.g2, 5))]

\* cfg.enableStreamsRecs === false, read by 2.1.1 and 2.3.3
StreamsOff(r, rq) == r # "1.9.0" /\ ~rq.cfg.enableStreamsRecs

\* A stream request arrives
StreamRequest(rq) ==
  /\ pc = "idle"
  /\ rq.handler = "stream"
  /\ rev \in StreamRevs
  /\ req' = rq
  /\ LET rc == MatchRecs(rq.id)
         im == MatchImdb(rq.id)
         tm == MatchTmdb(rq.id, TRUE)
         loc == StreamRecsLocals(rev, rc)
     IN CASE rc.ok ->
               /\ locals' = loc
               /\ CASE rev = "2.3.3" /\ loc.tmdbId = <<>> /\ loc.imdb # <<>> ->
                         /\ pc' = "reverse"
                         /\ reads' = reads + 1
                         /\ UNCHANGED <<streams, outcome>>
                    [] loc.imdb = <<>> /\ loc.tmdbId # <<>> ->
                         /\ pc' = "ext"
                         /\ reads' = reads + 1
                         /\ UNCHANGED <<streams, outcome>>
                    [] rev # "2.3.3" /\ loc.imdb # <<>> ->
                         /\ StreamReturn(StreamRecsRows(rev, loc))
                         /\ UNCHANGED reads
                    [] OTHER ->
                         /\ pc' = "title"
                         /\ reads' = reads + 1
                         /\ UNCHANGED <<streams, outcome>>
          [] ~rc.ok /\ im.ok ->
               /\ locals' = IF StreamsOff(rev, rq)
                            THEN [NoLocals EXCEPT !.route = "imdb"]
                            ELSE [NoLocals EXCEPT !.route = "imdb",
                                                  !.imdb = im.g1]
               /\ IF ~StreamsOff(rev, rq) /\ rev = "2.1.1"
                  THEN /\ pc' = "reverse"
                       /\ reads' = reads + 1
                       /\ UNCHANGED <<streams, outcome>>
                  ELSE /\ StreamReturn(IF StreamsOff(rev, rq) THEN <<>>
                                       ELSE RecRows(rev))
                       /\ UNCHANGED reads
          [] ~rc.ok /\ ~im.ok /\ tm.ok ->
               /\ IF StreamsOff(rev, rq)
                  THEN /\ locals' = [NoLocals EXCEPT !.route = "tmdb"]
                       /\ StreamReturn(<<>>)
                       /\ UNCHANGED reads
                  ELSE /\ locals' = [route |-> "tmdb",
                                     isMovie |-> TypeOfGroup(tm.g1) = "movie",
                                     tmdbType |-> TypeOfGroup(tm.g1),
                                     tmdbId |-> tm.g2, imdb |-> <<>>]
                       /\ pc' = "ext"
                       /\ reads' = reads + 1
                       /\ UNCHANGED <<streams, outcome>>
          [] OTHER ->
               /\ locals' = NoLocals
               /\ StreamReturn(<<>>)
               /\ UNCHANGED reads
  /\ UNCHANGED catalogVars
  /\ UNCHANGED <<rev, up, failed, window, imdbIds, overtaken, found, meta>>

\* /find answers.  recs:* item of 2.3.3: the TMDB id is taken when the match
\* has the type of the item.  IMDb item of 2.1.1: the trailer is read when
\* there is a match.
StreamReverseOk ==
  /\ pc = "reverse"
  /\ req.handler = "stream"
  /\ LET f == FirstMatch(FindBody(up))
         loc == IF locals.route = "recs" /\ f.tmdbType = locals.tmdbType
                THEN [locals EXCEPT !.tmdbId = NumToStr(f.tmdbId)]
                ELSE locals
     IN /\ found' = f
        /\ locals' = loc
        /\ IF locals.route = "imdb" /\ f # NoMatch
           THEN /\ pc' = "trailer"
                /\ reads' = reads + 1
                /\ UNCHANGED <<streams, outcome>>
           ELSE /\ StreamReturn(IF locals.route = "recs"
                                THEN StreamRecsRows(rev, loc) ELSE RecRows(rev))
                /\ UNCHANGED reads
  /\ UNCHANGED catalogVars
  /\ UNCHANGED <<rev, up, req, failed, window, imdbIds, overtaken, meta>>

\* /find fails: tmdbFromImdb of 2.3.3 catches and returns null, the IMDb
\* branch of 2.1.1 calls findTmdbFromImdb inside a try
StreamReverseFail ==
  /\ pc = "reverse"
  /\ req.handler = "stream"
  /\ failed' = failed \cup {"find"}
  /\ found' = IF rev = "2.3.3" THEN NoMatch ELSE found
  /\ StreamReturn(IF locals.route = "recs"
                  THEN StreamRecsRows(rev, locals) ELSE RecRows(rev))
  /\ UNCHANGED catalogVars
  /\ UNCHANGED <<rev, up, req, reads, window, imdbIds, overtaken, locals,
                 meta>>

\* The external_ids read ends, well or not (a failure is caught)
StreamExtIds ==
  /\ pc = "ext"
  /\ req.handler = "stream"
  /\ LET resp == ExternalIds(StrToNum(locals.tmdbId))
         loc == [locals EXCEPT !.imdb = ImdbFrom(resp)]
     IN /\ locals' = loc
        /\ failed' = IF tmdb(resp).threw THEN failed \cup {"ext"} ELSE failed
        /\ IF locals.route = "recs" /\ loc.imdb # <<>>
           THEN /\ StreamReturn(StreamRecsRows(rev, loc))
                /\ UNCHANGED reads
           ELSE /\ pc' = "title"
                /\ reads' = reads + 1
                /\ UNCHANGED <<streams, outcome>>
  /\ UNCHANGED catalogVars
  /\ UNCHANGED <<rev, up, req, window, imdbIds, overtaken, found, meta>>

\* What follows the read of the title
AfterTitle ==
  IF locals.route = "tmdb" /\ rev = "2.1.1"
  THEN /\ pc' = "trailer"
       /\ reads' = reads + 1
       /\ UNCHANGED <<streams, outcome>>
  ELSE /\ StreamReturn(IF locals.route = "recs"
                       THEN StreamRecsRows(rev, locals) ELSE RecRows(rev))
       /\ UNCHANGED reads

\* /{type}/{id} answers
StreamTitleOk ==
  /\ pc = "title"
  /\ req.handler = "stream"
  /\ AfterTitle
  /\ UNCHANGED catalogVars
  /\ UNCHANGED <<rev, up, req, failed, window, imdbIds, overtaken, locals,
                 found, meta>>

\* Mutant: the failure of the title read is not caught
StreamTitleThrows ==
  /\ pc = "title"
  /\ req.handler = "stream"
  /\ failed' = failed \cup {"title"}
  /\ pc' = "done"
  /\ streams' = <<>>
  /\ outcome' = "error"
  /\ UNCHANGED catalogVars
  /\ UNCHANGED <<rev, up, req, reads, window, imdbIds, overtaken, locals,
                 found, meta>>

\* /{type}/{id} fails: try { ... } catch {}
StreamTitleFail ==
  /\ pc = "title"
  /\ req.handler = "stream"
  /\ failed' = failed \cup {"title"}
  /\ AfterTitle
  /\ UNCHANGED catalogVars
  /\ UNCHANGED <<rev, up, req, window, imdbIds, overtaken, locals, found, meta>>

\* getTrailerYtId of 2.1.1 ends, well or not: it is called inside a try
StreamTrailer(ok) ==
  /\ pc = "trailer"
  /\ failed' = IF ok THEN failed ELSE failed \cup {"videos"}
  /\ StreamReturn(RecRows(rev))
  /\ UNCHANGED catalogVars
  /\ UNCHANGED <<rev, up, req, reads, window, imdbIds, overtaken, locals,
                 found, meta>>

-----------------------------------------------------------------------------
(* Meta and stream requests *)

MaxId == 12
MaxRecs == 21

UpperChar(c) ==
  CASE c = "b" -> "B" [] c = "c" -> "C" [] c = "d" -> "D" [] c = "e" -> "E"
    [] c = "i" -> "I" [] c = "m" -> "M" [] c = "o" -> "O" [] c = "r" -> "R"
    [] c = "s" -> "S" [] c = "t" -> "T" [] c = "v" -> "V" [] OTHER -> c

Upper(s) == [i \in 1..Len(s) |-> UpperChar(s[i])]

NativeTypes == {"movie", "tv"}

\* The ids the catalog emits for items without an IMDb id
TmdbIds == {SyntheticId(t, n) : t \in NativeTypes, n \in 0..MaxId}

\* The ids the meta handler emits in meta.videos
RecsIds ==
  {RecsVideoId(k, n, LookupResult("2.1.1", ExternalIds(n))) :
     k \in {"movie", "series"}, n \in 1..6}

ImdbIds == {ImdbOf(1)}

\* Ids of episodes: the id of the title followed by :season:episode
EpisodeOf(id) == id \o <<":", "1", ":", "2">>

OtherIds ==
  {<<"o", "t", "h", "e", "r">>,
   <<"t", "m", "d", "b", ":", "f", "i", "l", "m", ":", "5">>,
   <<"t", "m", "d", "b", ":", "t", "v", ":">>,
   <<"t", "m", "d", "b", ":", "t", "v", ":", "5", "x">>,
   <<"t", "m", "d", "b", "-", "5">>,
   <<"t", "t">>,
   <<"r", "e", "c", "s", ":", "m", "o", "v", "i", "e", ":", "t", "t", ":", "5">>}

HandlerIds ==
  TmdbIds \cup RecsIds \cup ImdbIds \cup OtherIds
    \cup {EpisodeOf(id) : id \in {SyntheticId("tv", 7), ImdbOf(1)}}
    \cup {Upper(id) : id \in {SyntheticId("movie", 5), SyntheticId("tv", 5),
                              RecsVideoId("movie", 1, StrV(ImdbOf(1))),
                              RecsVideoId("series", 2, Null), ImdbOf(1)}}

StreamCfgs == [enableStreamsRecs : BOOLEAN]

HandlerRequests ==
  {r \in [handler : {"meta", "stream"}, type : Types, id : HandlerIds,
          cfg : StreamCfgs] :
     /\ r.handler = "meta" => r.cfg.enableStreamsRecs
     /\ r.handler = "stream" => r.type = "series"}

TvOnly == [movie |-> FALSE, tv |-> TRUE, mPop |-> 0, tPop |-> 1]
Both == [movie |-> TRUE, tv |-> TRUE, mPop |-> 1, tPop |-> 1]
Neither == [movie |-> FALSE, tv |-> FALSE, mPop |-> 0, tPop |-> 0]

\* N is the number of recommendations the upstream has for a title
HandlerUpstreams ==
  [N : {0, 2, MaxRecs}, pageLen : {tmdbPerPage}, total : {"exact"},
   hits : {MovieOnly}]
    \cup [N : {2}, pageLen : {tmdbPerPage}, total : {"exact"},
          hits : {TvOnly, Both, Neither}]

InitHandlers ==
  /\ rev \in MetaRevs
  /\ up \in HandlerUpstreams
  /\ req = [handler |-> "none", type |-> "series", id |-> <<>>,
            cfg |-> [enableStreamsRecs |-> TRUE]]
  /\ Quiet

NextHandlers ==
  \/ \E r \in HandlerRequests : MetaRequest(r)
  \/ MetaDetailsOk
  \/ MetaDetailsFail
  \/ MetaReverseOk
  \/ MetaReverseFail
  \/ MetaTitleOk
  \/ MetaTitleFail
  \/ MetaExtIds
  \/ MetaRecsOk
  \/ MetaRecsFail
  \/ \E d \in 0..MaxOvertake : MetaVideoLookup(LowestPending(imdbIds) + d)
  \/ \E r \in HandlerRequests : StreamRequest(r)
  \/ StreamReverseOk
  \/ StreamReverseFail
  \/ StreamExtIds
  \/ StreamTitleOk
  \/ StreamTitleFail
  \/ \E ok \in BOOLEAN : StreamTrailer(ok)

SpecHandlers == InitHandlers /\ [][NextHandlers]_vars

-----------------------------------------------------------------------------
(* Properties of the catalog handler *)

\* The upstream item a meta stands for: both forms of the id end with the
\* digits of the item's TMDB id
ItemOf(preview) == StrToNum(TrailingDigits(preview.id))

Done == pc = "done"
OnListRail ==
  /\ CurRail \in {"onair", "popTv", "popMovie"}
  /\ ~ToggledOff(rev, req.id, req.cfg)
OnRecsRail == CurRail = "recs" /\ ~ToggledOff(rev, req.id, req.cfg)
WellPaged == up.pageLen = tmdbPerPage /\ up.total = "exact"
\* A list request that is over and whose page fetches all succeeded
ListServed == Done /\ OnListRail /\ WellPaged /\ failed = {}
UsedLookups == imdbIds # <<>>
ExpectedCount == Min(maxReturn, Max(0, up.N - req.skip))

C2_AtMostLimit ==
  /\ Len(metas) <= maxReturn
  /\ (CurRail = "recs" => Len(metas) <= PAGE_SIZE)

C2_Witness ==
  /\ Done
  /\ OnListRail
  /\ up.pageLen > tmdbPerPage
  /\ Len(flatMap(pages)) - (req.skip % tmdbPerPage) > maxReturn
  /\ Len(metas) = maxReturn

LookupFails(n) == ExternalIds(n).status # "ok"

\* C5: a failing external-id lookup is caught: the item still gets a meta
\* with the synthetic id and the request succeeds.
C5_LookupFailureIsCaught ==
  Done /\ UsedLookups =>
    /\ outcome = "ok"
    /\ Len(metas) = Len(window)
    /\ \A i \in 1..Len(window) :
         LookupFails(window[i]) =>
           metas[i].id = SyntheticId(NativeType(CurRail), window[i])

C5_Witness ==
  /\ Done
  /\ UsedLookups
  /\ outcome = "ok"
  /\ \A st \in {"neterr", "non2xx", "badbody"} :
       \E i \in 1..Len(window) :
         /\ ExternalIds(window[i]).status = st
         /\ metas[i].id = SyntheticId(NativeType(CurRail), window[i])

HasImdbId(n) ==
  ExternalIds(n).status = "ok" /\ ExternalIds(n).imdb_id.k = "str"
    /\ ExternalIds(n).imdb_id.s # <<>>

\* C6: on a rail that looks up external ids, a meta id is the IMDb id when
\* the lookup returns a non-empty one and the synthetic id otherwise; it is
\* never empty.
C6_IdIsImdbOrSynthetic ==
  Done /\ UsedLookups /\ outcome = "ok" =>
    \A i \in 1..Len(metas) :
      /\ metas[i].id # <<>>
      /\ metas[i].id = IF HasImdbId(window[i])
                       THEN ExternalIds(window[i]).imdb_id.s
                       ELSE SyntheticId(NativeType(CurRail), window[i])

C6_Witness ==
  /\ Done
  /\ UsedLookups
  /\ outcome = "ok"
  /\ \E i, j, k \in 1..Len(metas) :
       /\ metas[i].id = ImdbOf(window[i])
       /\ ExternalIds(window[j]).imdb_id = StrV(<<>>)
       /\ ExternalIds(window[j]).status = "ok"
       /\ ExternalIds(window[k]).imdb_id = Null
       /\ ExternalIds(window[k]).status = "ok"
       /\ metas[j].id = SyntheticId(NativeType(CurRail), window[j])
       /\ metas[k].id = SyntheticId(NativeType(CurRail), window[k])

\* C7: whatever the order in which the lookup responses arrive, the output
\* has the length and order of the input: position i carries the id resolved
\* for item i.
C7_BatchKeepsInputOrder ==
  Done /\ UsedLookups /\ outcome = "ok" =>
    /\ Len(metas) = Len(window)
    /\ \A i \in 1..Len(window) : ItemOf(metas[i]) = window[i]

C7_Witness ==
  /\ Done
  /\ UsedLookups
  /\ outcome = "ok"
  /\ overtaken
  /\ Len(window) >= 3
  /\ \E i \in 1..Len(window) : metas[i].id = ImdbOf(window[i])

\* C11: two catalog requests with the same (type, id, skip) against an
\* unchanged upstream return the same metas list, whatever the order in
\* which the external-id lookups of each request complete.  The upstream is
\* unchanged when it answers every read of both requests (an id lookup that
\* fails for an item fails for it in both).
C11_SameRequestSameMetas ==
  Done /\ prior # NoPrior /\ req = prior.req /\ failed = {} /\ prior.failed = {} =>
    metas = prior.metas /\ outcome = prior.outcome

C11_Witness ==
  /\ Done
  /\ prior # NoPrior
  /\ req = prior.req
  /\ failed = {}
  /\ prior.failed = {}
  /\ prior.overtaken # overtaken
  /\ UsedLookups
  /\ Len(metas) >= 3
  /\ metas = prior.metas
  /\ \E i, j \in 1..Len(metas) :
       metas[i].id = ImdbOf(window[i]) /\ metas[j].id # ImdbOf(window[j])


\* C12: no upstream failure propagates out of a catalog request: when the
\* fetch of a list page fails (network failure or non-2xx status) the request
\* still completes and returns an empty or partial metas list.
C12_PageFailureIsNotFatal ==
  Done /\ "page" \in failed => outcome = "ok"

\* C13: a malformed upstream item never leaves the display name absent: the
\* name of a preview is the primary title field of its item when present,
\* otherwise the alternate title field, otherwise the id of the preview.
C13_NameIsNeverAbsent ==
  Done /\ outcome = "ok" =>
    \A i \in 1..Len(metas) :
      LET t == TitlesOf(window[i])
      IN metas[i].name =
           Or(t.name, Or(t.original_name, StrV(metas[i].id)))

\* The pages a list request has asked for so far
ListPaging == OnListRail /\ requested # <<>>

\* The first page requested is floor(skip / pageSize) + 1 and no page above
\* ceil((skip + limit) / pageSize) is requested
FirstAndLastPage ==
  ListPaging =>
    /\ requested[1] = (req.skip \div tmdbPerPage) + 1
    /\ \A i \in 1..Len(requested) :
         requested[i] * tmdbPerPage < req.skip + maxReturn + tmdbPerPage

\* A list of pages of 20 that reaches beyond page 6, asked at offset 95
DeepRequest ==
  /\ ListServed
  /\ req.skip = DeepSkip
  /\ up.N >= 6 * tmdbPerPage

\* C14 as stated: the first and last page bounds hold, and the request at
\* offset 95 fetches exactly pages 5 and 6 and returns 10 items: the last 5
\* of page 5 followed by the first 5 of page 6.
C14_PagesOfWindowLimit10 ==
  /\ FirstAndLastPage
  /\ DeepRequest =>
       /\ requested = <<5, 6>>
       /\ [i \in 1..Len(metas) |-> ItemOf(metas[i])] =
            [i \in 1..10 |-> DeepSkip + i]

\* C14, amended: the first and last page bounds hold; the limit is the fixed
\* maxReturn (100), so the request at offset 95 asks for page 5 first and
\* goes on up to page 10 as far as the list reaches, and its result is the
\* last 5 items of page 5 followed by the items of the pages after it, at
\* most 100 in all.
C14_PagesOfWindow ==
  /\ FirstAndLastPage
  /\ DeepRequest =>
       /\ requested =
            [i \in 1..(Min(10, CeilDiv(up.N, tmdbPerPage)) - 4) |-> 4 + i]
       /\ [i \in 1..Len(metas) |-> ItemOf(metas[i])] =
            [i \in 1..Min(maxReturn, up.N - DeepSkip) |-> DeepSkip + i]

C14_Witness ==
  /\ DeepRequest
  /\ requested = <<5, 6, 7>>
  /\ Len(metas) > 10
  /\ ItemOf(metas[1]) = 96
  /\ ItemOf(metas[6]) = 101

\* C15: within one catalog call the requested page numbers are strictly
\* ascending and contiguous, beginning at the page that contains offset
\* skip; so no page number is requested twice in the call.
C15_PagesAscendFromSkip ==
  requested # <<>> =>
    \A i \in 1..Len(requested) :
      requested[i] = (req.skip \div tmdbPerPage) + i

\* The total page count the response to the i-th request of the call reports
\* (0 when the response carries none)
ReportedTotal(i) == UpstreamPage(up, requested[i]).total_pages

C17_StopsOnlyAtReportedTotal ==
  /\ Done
  /\ OnListRail
  /\ failed = {}
  /\ requested # <<>>
  /\ requested[Len(requested)] * tmdbPerPage < req.skip + maxReturn
  => /\ ReportedTotal(Len(requested)) # 0
     /\ requested[Len(requested)] >= ReportedTotal(Len(requested))

\* The page fetches of a list request that have not been answered yet
PagesInFlight ==
  Len(requested) - Len(pages) - (IF "page" \in failed THEN 1 ELSE 0)

\* A step that asks for one more list page
AsksNextPage == OnListRail /\ requested # <<>> /\ requested' # requested

\* C18: the page fetches of one catalog call are strictly sequential: at
\* most one is in flight at any time, and page p + 1 is asked for only in
\* the step in which the response for page p has arrived and its total page
\* count has been found to lie beyond p.
C18_PageFetchesAreSequential ==
  /\ [](OnListRail => PagesInFlight \in {0, 1})
  /\ [][AsksNextPage =>
          /\ PagesInFlight = 1
          /\ pages' = Append(pages, UpstreamPage(up, requested[Len(requested)]))
          /\ requested' = Append(requested, requested[Len(requested)] + 1)
          /\ requested[Len(requested)] < pages'[Len(pages')].total_pages]_vars

C18_Witness ==
  /\ OnListRail
  /\ pc = "pages"
  /\ Len(requested) = 3
  /\ Len(pages) = 2
  /\ PagesInFlight = 1

\* The external-id lookups a list request has issued: its reads that are
\* not page fetches
LookupsIssued == reads - Len(requested)

\* C19: the external-id lookups start only after the page-fetch phase of
\* the call has ended, and exactly one lookup is issued per item of the
\* sliced window: none for a fetched item outside the window, none twice
\* (the items of the window are in upstream order, so no two are the same).
C19_OneLookupPerWindowItem ==
  OnListRail =>
    /\ pc = "pages" => LookupsIssued = 0 /\ imdbIds = <<>>
    /\ UsedLookups =>
         /\ PagesInFlight = 0
         /\ window = Slice(flatMap(pages), req.skip % tmdbPerPage,
                           (req.skip % tmdbPerPage) + maxReturn)
         /\ LookupsIssued = Len(window)
         /\ DOMAIN imdbIds = DOMAIN window
         /\ \A i \in 1..(Len(window) - 1) : window[i] < window[i + 1]

C19_Witness ==
  /\ Done
  /\ OnListRail
  /\ UsedLookups
  /\ Len(requested) >= 2
  /\ Len(window) < Len(flatMap(pages))
  /\ LookupsIssued = Len(window)

\* C20: lenient page-failure policy: when the fetch of page k fails after
\* pages startPage..k-1 were fetched in the same call, no further page is
\* requested and the result is the window sliced from exactly the pages
\* accumulated before the failure, in order.
C20_PartialWindowOnPageFailure ==
  Done /\ OnListRail /\ "page" \in failed =>
    /\ Len(requested) = Len(pages) + 1
    /\ outcome = "ok"
    /\ [i \in 1..Len(metas) |-> ItemOf(metas[i])] =
         Slice(flatMap(pages), req.skip % tmdbPerPage,
               (req.skip % tmdbPerPage) + maxReturn)

\* The reads resolveQueryToTmdb makes for the search text of the request
ResolveReads ==
  CASE req.search = "tt" -> 1
    [] req.search = "title" -> 2
    [] OTHER -> 0

\* The bounds on the page fetches and the lookups of a request
ReadsAreBounded ==
  /\ OnListRail =>
       /\ Len(requested) * tmdbPerPage <=
            (req.skip + maxReturn + tmdbPerPage - 1)
              - (req.skip \div tmdbPerPage) * tmdbPerPage
       /\ Len(requested) <= 6
       /\ reads <= Len(requested) + Len(window)
  /\ OnRecsRail =>
       /\ Len(requested) <= 10
       /\ reads <= ResolveReads + Len(requested) + Len(window)
  /\ Done /\ outcome = "ok" => Len(window) = Len(metas)
  /\ ~OnListRail /\ ~OnRecsRail => reads = 0

\* How far the handler has come: its phase, then the reads it has made, then
\* the lookups that have been answered
Phase ==
  CASE pc = "idle" -> 0
    [] pc \in {"find", "searchMovie"} -> 1
    [] pc = "searchTv" -> 2
    [] pc \in {"pages", "recs"} -> 3
    [] pc = "lookups" -> 4
    [] pc = "done" -> 5

Answered == Cardinality({i \in DOMAIN imdbIds : imdbIds[i] # Pending})

Progress == Phase * 100000 + reads * 1000 + Answered

\* C21: a catalog request terminates after a bounded number of outbound
\* reads whatever the upstream returns: a list rail makes at most
\* ceil((skip + limit) / pageSize) - floor(skip / pageSize) page fetches (at
\* most 6), a recommendation rail at most 10 page fetches, and at most one
\* external-id lookup per item of the returned window.
\* The reads stay within these bounds and every step of the handler takes
\* it further, so the request ends once its reads are answered.
C21_BoundedReads ==
  /\ [](ReadsAreBounded /\ reads < 1000 /\ Answered < 1000)
  /\ [][Progress' > Progress]_vars

C21_Witness ==
  /\ Done
  /\ OnRecsRail
  /\ Len(requested) = 10
  /\ Len(metas) > 0
  /\ reads = ResolveReads + 10 + Len(metas)

\* A recs request that is over, all of whose reads were answered, against
\* recommendations in pages of 20 with their true page count
RecsServed == Done /\ OnRecsRail /\ WellPaged /\ failed = {} /\ requested # <<>>

\* C22: the recs rails fetch enough recommendation pages to cover
\* skip + PAGE_SIZE items: for every skip the returned slice is exactly
\* items [skip, min(skip + 50, N)) of the upstream list, in upstream order.
C22_RecsSliceIsUpstreamRange ==
  RecsServed =>
    /\ outcome = "ok"
    /\ [i \in 1..Len(metas) |-> ItemOf(metas[i])] =
         [i \in 1..Max(0, Min(PAGE_SIZE, up.N - req.skip)) |-> req.skip + i]

\* The request names a rail whose toggle is false in its config, in a
\* revision that has the toggles
RailSwitchedOff ==
  /\ pc # "idle"
  /\ rev \in {"2.1.0", "2.3.3"}
  /\ \/ req.id = "tmdb-on-air" /\ ~req.cfg.enableOnAir
     \/ req.id = "tmdb-recs-series" /\ ~req.cfg.enableRecsTv
     \/ req.id = "tmdb-recs-movie" /\ ~req.cfg.enableRecsMovie

\* C24: when the toggle of a rail is false (enableOnAir for tmdb-on-air,
\* enableRecsTv for tmdb-recs-series, enableRecsMovie for tmdb-recs-movie), a
\* catalog request for that rail returns an empty metas list and issues no
\* outbound read at all.
C24_SwitchedOffRailReadsNothing ==
  RailSwitchedOff =>
    /\ Done
    /\ outcome = "ok"
    /\ metas = <<>>
    /\ reads = 0
    /\ requested = <<>>

C24_Witness ==
  /\ RailSwitchedOff
  /\ req.id = "tmdb-recs-movie"
  /\ req.type = "movie"
  /\ req.search = "tt"
  /\ up.hits.movie
  /\ reads = 0
  /\ metas = <<>>

\* C25: a catalog request whose (type, id) pair is not one of the catalogs
\* declared in the manifest returns an empty metas list and issues no
\* outbound read; this includes a declared id requested with the other type.
C25_UndeclaredCatalogReadsNothing ==
  pc # "idle" /\ ~Declared(rev, req.type, req.id) =>
    /\ Done
    /\ outcome = "ok"
    /\ metas = <<>>
    /\ reads = 0

\* The second of two requests that send one query to the two search rails
SecondRail ==
  /\ prior # NoPrior
  /\ prior.req.id \in {"tmdb-recs-movie", "tmdb-recs-series"}
  /\ req.id = OtherRecsRail(prior.req.id)

\* C29: for one search query against an unchanged upstream at most one of
\* the two search rails returns a non-empty metas list; the other one
\* returns an empty list and never fetches a page of recommendations.
C29_AtMostOneRecsRail ==
  SecondRail /\ prior.metas # <<>> =>
    /\ metas = <<>>
    /\ requested = <<>>
    /\ pc # "recs"

C29_Witness ==
  /\ SecondRail
  /\ prior.metas # <<>>
  /\ Done
  /\ outcome = "ok"
  /\ resolved # NoMatch
  /\ req.search = "title"
  /\ up.hits.movie /\ up.hits.tv /\ up.hits.mPop = up.hits.tPop

\* C30: every page number the catalog handler requests from the upstream is
\* an integer of at least 1, whatever skip the request carries, a negative
\* one included.
C30_PageNumbersStartAtOne ==
  \A i \in DOMAIN requested : requested[i] >= 1

-----------------------------------------------------------------------------
(* Properties of the meta and stream handlers *)

\* The handler has matched the id and read the captured groups
Parsed ==
  /\ pc # "idle"
  /\ req.handler \in {"meta", "stream"}
  /\ ~(req.handler = "stream" /\ StreamsOff(rev, req))

\* C8: the id produced as tmdb:{type}:{id} for a native type in {movie, tv}
\* and a native id is accepted by the tmdb pattern of the meta and stream
\* handlers, and the type and id parsed from it are the original pair.
C8_SyntheticIdRoundTrip ==
  \A t \in NativeTypes, n \in 0..MaxId :
    Parsed /\ req.id = SyntheticId(t, n) =>
      /\ locals.route = "tmdb"
      /\ locals.tmdbType = t
      /\ locals.tmdbId = NumToStr(n)
      /\ StrToNum(locals.tmdbId) = n

C8_Witness ==
  /\ pc = "done"
  /\ outcome = "ok"
  /\ req.handler = "meta"
  /\ req.id = <<"t", "m", "d", "b", ":", "m", "o", "v", "i", "e", ":", "1", "0">>
  /\ req.id \in TmdbIds
  /\ locals.route = "tmdb"
  /\ locals.tmdbType = "movie"
  /\ StrToNum(locals.tmdbId) = 10

\* C9: the reverse lookup tries movie, then series: it returns the first
\* movie match when there is one, otherwise the first series match, and
\* not-found when there is neither.
C9_ReverseLookupOrder ==
  found # Unset /\ "find" \notin failed =>
    LET data == FindBody(up)
    IN /\ data.movie_results # <<>> =>
            found = [tmdbType |-> "movie", tmdbId |-> Head(data.movie_results)]
       /\ data.movie_results = <<>> /\ data.tv_results # <<>> =>
            found = [tmdbType |-> "tv", tmdbId |-> Head(data.tv_results)]
       /\ data.movie_results = <<>> /\ data.tv_results = <<>> =>
            found = NoMatch

C9_Witness ==
  /\ found # Unset
  /\ "find" \notin failed
  /\ Len(FindBody(up).movie_results) > 1
  /\ Len(FindBody(up).tv_results) > 1
  /\ found.tmdbType = "movie"
  /\ found.tmdbId = MovieHit

\* C10: when the /find call fails, the reverse lookup yields not-found
\* rather than an error, and the meta or stream request that made it still
\* returns a response.
C10_FindFailureIsNotFound ==
  pc = "done" /\ req.handler \in {"meta", "stream"} /\ "find" \in failed =>
    outcome = "ok"

StreamDone == pc = "done" /\ req.handler = "stream"

\* C23: the stream handler never fails: for every request id, and even if
\* every upstream call it makes fails, it returns a streams list (possibly
\* empty) instead of raising an error.
C23_StreamNeverFails ==
  StreamDone => outcome = "ok"

C23_Witness ==
  /\ StreamDone
  /\ reads >= 2
  /\ Cardinality(failed) = reads
  /\ outcome = "ok"
  /\ streams # <<>>

\* What an id says once its letter case is put aside
WrittenMovie ==
  StartsWith(Drop(Lower(req.id), 5), <<"m", "o", "v", "i", "e", ":">>)
WrittenImdbTarget ==
  \/ StartsWith(Drop(Lower(req.id), 5),
                <<"m", "o", "v", "i", "e", ":", "t", "t", ":">>)
  \/ StartsWith(Drop(Lower(req.id), 5),
                <<"s", "e", "r", "i", "e", "s", ":", "t", "t", ":">>)

\* C26: for every id the patterns of the meta or stream handler accept,
\* whatever its letter case, the native type and the IMDb or native
\* reference used are the ones written in the id: a movie id is never
\* treated as tv and an IMDb reference is never treated as a native id.
C26_CaseDoesNotChangeParse ==
  Parsed =>
    /\ locals.route = "tmdb" =>
         (locals.tmdbType = "movie") = WrittenMovie
    /\ locals.route = "recs" =>
         /\ locals.isMovie = WrittenMovie
         /\ found = Unset => (locals.tmdbType = "movie") = WrittenMovie
         /\ WrittenImdbTarget /\ found = Unset => locals.tmdbId = <<>>

\* The meta handler answered with the page it built
MetaServed == pc = "done" /\ req.handler = "meta" /\ outcome = "ok"

\* What the meta handler wrote into video i: the IMDb id of the lookup when
\* there is one, else the native id of the recommendation
EmittedImdb(i) == IF Truthy(imdbIds[i]) THEN imdbIds[i].s ELSE <<>>
EmittedNative(i) == IF Truthy(imdbIds[i]) THEN <<>> ELSE NumToStr(window[i])

\* C27: every video id the meta handler emits is accepted by the recs
\* pattern; the meta handler (2.1.0, 2.1.1) and the stream handler (1.9.0,
\* 2.1.1, 2.3.3) of the same revision parse it back to the kind it was
\* written with and to the same IMDb id or the same native id.
C27_RecsIdRoundTrip ==
  MetaServed =>
    \A i \in DOMAIN meta.videos :
      LET rm == MatchRecs(meta.videos[i].id)
          m == RecsLocals(rev, rm)
          s == StreamRecsLocals(rev, rm)
      IN /\ rm.ok
         /\ m.isMovie = (locals.tmdbType = "movie")
         /\ rev \in {"2.1.0", "2.1.1"} =>
              m.imdb = EmittedImdb(i) /\ m.tmdbId = EmittedNative(i)
         /\ rev \in StreamRevs =>
              /\ s.isMovie = (locals.tmdbType = "movie")
              /\ s.imdb = EmittedImdb(i)
              /\ s.tmdbId = EmittedNative(i)

C27_Witness ==
  /\ MetaServed
  /\ \E i, j \in DOMAIN meta.videos :
       /\ EmittedImdb(i) # <<>>
       /\ EmittedNative(j) # <<>>
  /\ locals.tmdbType = "movie"

\* The kind written in a video id, movie or series
KindOf(id) == IF MatchRecs(id).g1 = MovieGroup THEN "movie" ELSE "series"

\* C28: on every page the meta handler returns, the kind embedded in each
\* listed video id is the type of the page itself, also on a recs:* page
\* whose IMDb id the upstream resolves to a title of the other type.
C28_VideoKindIsPageType ==
  MetaServed =>
    \A i \in DOMAIN meta.videos : KindOf(meta.videos[i].id) = meta.type

====
